---------------------------- MODULE Spec2Model ----------------------------
(***************************************************************************)
(* A model of nodepool's allocation algorithm (nodepool/allocation.py).    *)
(*                                                                         *)
(* The graph of AllocationProvider / AllocationRequest /                   *)
(* AllocationSubRequest / AllocationGrant / AllocationRequestTarget /      *)
(* AllocationGrantTarget objects is the state.  The operations are         *)
(* AllocationRequest.addTarget, AllocationRequest.addProvider and          *)
(* AllocationProvider.makeGrants; each is one atomic action that includes  *)
(* every call it makes (makeRequests, grant, makeAllocations, allocate).   *)
(*                                                                         *)
(* Python floats are modelled as exact rationals <<numerator,              *)
(* denominator>>: every float the code computes is a quotient or product   *)
(* of small integers, and int(round(x)) is Python 2's round-half-away-     *)
(* from-zero.                                                              *)
(***************************************************************************)
EXTENDS Integers, Sequences, FiniteSets, TLC

(***************************************************************************)
(* Bounds of the model.                                                    *)
(***************************************************************************)
\* largest `available` a provider is constructed with, and largest `amount`
\* a request is constructed with
MaxNodes == 3
\* largest min_ready weight passed to addTarget
MaxWeight == 2
\* largest current count passed to addTarget
MaxCurrent == 1

VARIABLES
    phase,             \* "setup" until the first makeGrants call, then "run"
    available,         \* AllocationProvider.available
    provider_subs,     \* AllocationProvider.sub_requests: list, by request
    provider_grants,   \* AllocationProvider.grants: list of AllocationGrant
    request_amount,    \* AllocationRequest.amount
    request_subs,      \* AllocationRequest.sub_requests: provider -> sub-request
    request_targets,   \* AllocationRequest.request_targets: target -> record
    initial,           \* the constructor arguments (available, amount)
    finalized          \* history: the calls of AllocationSubRequest.grant

vars == <<phase, available, provider_subs, provider_grants, request_amount,
          request_subs, request_targets, initial, finalized>>

(***************************************************************************)
(* Float arithmetic, as exact rationals <<n, d>> with d > 0, in lowest     *)
(* terms.                                                                  *)
(***************************************************************************)
Abs(x) == IF x < 0 THEN -x ELSE x

RECURSIVE GCD(_, _)
GCD(a, b) == IF b = 0 THEN a ELSE GCD(b, a % b)

\* the float n / d, d # 0
Rat(n, d) ==
    LET g == GCD(Abs(n), Abs(d))
        s == IF d < 0 THEN -1 ELSE 1
    IN  <<(s * n) \div g, (s * d) \div g>>

\* float(n) of an integer n
Float(n) == <<n, 1>>

RAdd(a, b) == Rat(a[1] * b[2] + b[1] * a[2], a[2] * b[2])
RMul(a, b) == Rat(a[1] * b[1], a[2] * b[2])
RDiv(a, b) == Rat(a[1] * b[2], a[2] * b[1])

\* int(x) without round(): truncation
RoundTruncate(x) ==
    IF x[1] >= 0 THEN x[1] \div x[2] ELSE -((-x[1]) \div x[2])

\* int(round(x)): Python 2 rounds half away from zero
Round(x) ==
    IF x[1] >= 0
    THEN (2 * x[1] + x[2]) \div (2 * x[2])
    ELSE -((2 * (-x[1]) + x[2]) \div (2 * x[2]))

Min(a, b) == IF a < b THEN a ELSE b
Max(a, b) == IF a > b THEN a ELSE b

\* grant() without "del self.request.sub_requests[self.provider]"
WithoutNothing(f, k) == f

\* f without key k (del d[k])
Without(f, k) == [x \in DOMAIN f \ {k} |-> f[x]]
\* f with key k set to v (d[k] = v)
With(f, k, v) == [x \in DOMAIN f \cup {k} |-> IF x = k THEN v ELSE f[x]]

\* grant() without "self.provider.sub_requests.remove(self)"
RemoveNothing(s, e) == s

\* the list s without its first occurrence of e (list.remove)
RECURSIVE Remove(_, _)
Remove(s, e) ==
    IF s = <<>> THEN <<>>
    ELSE IF Head(s) = e THEN Tail(s)
    ELSE <<Head(s)>> \o Remove(Tail(s), e)

RECURSIVE SumOver(_, _)
SumOver(S, f) ==
    IF S = {} THEN 0
    ELSE LET x == CHOOSE y \in S : TRUE
         IN  f[x] + SumOver(S \ {x}, f)

(***************************************************************************)
(* The state after construction: the providers Ps with their capacity      *)
(* (drawn from 0..max_available), the requests Rs with their amount (drawn *)
(* from 0..max_amount), nothing registered yet.                            *)
(***************************************************************************)
Constructed(avail, amounts) ==
    /\ phase = "setup"
    /\ available = avail
    /\ request_amount = amounts
    /\ provider_subs = [p \in DOMAIN avail |-> <<>>]
    /\ provider_grants = [p \in DOMAIN avail |-> <<>>]
    /\ request_subs = [r \in DOMAIN amounts |-> <<>>]
    /\ request_targets = [r \in DOMAIN amounts |-> <<>>]
    /\ initial = [available |-> avail, amount |-> amounts,
                  current |-> [r \in DOMAIN amounts |-> <<>>]]
    /\ finalized = <<>>

(***************************************************************************)
(* AllocationRequest.makeRequests: (re-)distribute the request's amount    *)
(* across the providers of its live sub-requests, in proportion to their   *)
(* available capacity.  subs is the request's sub_requests dict.           *)
(***************************************************************************)
\* makeRequests splitting the amount equally among the sub-requests
makeRequestsEqual(subs, amount, avail) ==
    [p \in DOMAIN subs |->
        [subs[p] EXCEPT !.amount = Rat(amount, Cardinality(DOMAIN subs))]]

\* makeRequests without float(): Python 2's integer division
makeRequestsIntDiv(subs, amount, avail) ==
    LET total_available == SumOver(DOMAIN subs, avail)
    IN  [p \in DOMAIN subs |->
            [subs[p] EXCEPT !.amount =
                IF total_available # 0
                THEN Float((avail[p] \div total_available) * amount)
                ELSE Float(0)]]

makeRequests(subs, amount, avail) ==
    LET total_available == SumOver(DOMAIN subs, avail)
    IN  [p \in DOMAIN subs |->
            [subs[p] EXCEPT !.amount =
                IF total_available # 0
                THEN RMul(Rat(avail[p], total_available), Float(amount))
                ELSE Float(0)]]

(***************************************************************************)
(* AllocationGrant.makeAllocations with AllocationGrantTarget.allocate:    *)
(* the loop over the grant's targets.  a holds the loop's locals (amount,  *)
(* total_min_ready, total_current), the grant's targets list and the       *)
(* request's request_targets.                                              *)
(***************************************************************************)
\* "allocation = delta" without the bounds
AllocationUnbounded(delta, amount) == delta

\* the allocation of a target: delta bounded by 0 and by the amount left
Allocation(delta, amount) == Max(Min(delta, amount), 0)

\* allocate with "self.request_target.current = amount" written for "+="
allocateSet(rts, t, amount) == [rts EXCEPT ![t].current = amount]

\* AllocationGrantTarget.allocate, its effect on the request's targets
allocate(rts, t, amount) == [rts EXCEPT ![t].current = @ + amount]

RECURSIVE AllocationLoop(_, _)
AllocationLoop(i, a) ==
    IF i > Len(a.targets) THEN a
    ELSE
        LET agt == a.targets[i]
            request_target == a.request_targets[agt.target]
            ratio == IF a.total_min_ready # 0
                     THEN Rat(request_target.min_ready, a.total_min_ready)
                     ELSE Float(0)
            desired_count == Round(RMul(ratio, Float(a.total_current)))
            delta == desired_count - request_target.current
            allocation == Allocation(delta, a.amount)
        IN  AllocationLoop(i + 1,
                [amount |-> a.amount - allocation,
                 total_min_ready |-> a.total_min_ready - request_target.min_ready,
                 total_current |->
                     a.total_current - request_target.current - allocation,
                 \* agt.allocate(allocation)
                 targets |-> [a.targets EXCEPT ![i].amount = allocation],
                 request_targets |->
                     allocate(a.request_targets, agt.target, allocation)])

RECURSIVE SumTargets(_, _, _)
SumTargets(targets, rts, field) ==
    IF targets = <<>> THEN 0
    ELSE rts[Head(targets).target][field] + SumTargets(Tail(targets), rts, field)

\* makeAllocations without the line "total_current += amount"
makeAllocationsNoAdd(amount, targets, rts) ==
    AllocationLoop(1,
        [amount |-> amount,
         total_min_ready |-> SumTargets(targets, rts, "min_ready"),
         total_current |-> SumTargets(targets, rts, "current"),
         targets |-> targets,
         request_targets |-> rts])

makeAllocations(amount, targets, rts) ==
    AllocationLoop(1,
        [amount |-> amount,
         total_min_ready |-> SumTargets(targets, rts, "min_ready"),
         total_current |-> SumTargets(targets, rts, "current") + amount,
         targets |-> targets,
         request_targets |-> rts])

(***************************************************************************)
(* AllocationSubRequest.getPriority: the number of live sub-requests of    *)
(* the parent request, read from the graph g.                              *)
(***************************************************************************)
getPriority(g, r) == Cardinality(DOMAIN g.request_subs[r])

(***************************************************************************)
(* AllocationSubRequest.grant: finalize the sub-request of request r at    *)
(* provider p with the supplied amount.  g is the graph (a record of the   *)
(* variables); the result is the graph afterwards.                         *)
(***************************************************************************)
\* "if amount >= 0" written for "if amount > 0"
GrantCreatedNonNegative(amount) == amount >= 0

\* whether grant() creates an AllocationGrant: "if amount > 0"
GrantCreated(amount) == amount > 0

\* "available -= amount" on a counter that all the providers share
DecreaseAll(avail, p, amount) == [q \in DOMAIN avail |-> avail[q] - amount]

\* "self.provider.available -= amount"
Decrease(avail, p, amount) == [avail EXCEPT ![p] = @ - amount]

grant(g, p, r, amount) ==
    LET sub == g.request_subs[r][p]
        new_amount == g.request_amount[r] - amount
        new_available == Decrease(g.available, p, amount)
        subs == makeRequests(Without(g.request_subs[r], p), new_amount,
                             new_available)
        alloc == IF GrantCreated(amount)
                 THEN makeAllocations(amount, sub.targets, g.request_targets[r])
                 ELSE [targets |-> sub.targets,
                       request_targets |-> g.request_targets[r]]
    IN  [g EXCEPT
            !.provider_subs[p] = Remove(@, r),
            !.request_subs[r] = subs,
            !.provider_grants[p] =
                IF GrantCreated(amount)
                THEN Append(@, [request |-> r, amount |-> amount,
                                targets |-> alloc.targets])
                ELSE @,
            !.request_amount[r] = new_amount,
            !.available = new_available,
            !.request_targets[r] = alloc.request_targets,
            !.finalized = Append(@, [provider |-> p, request |-> r,
                                     requested |-> sub.amount,
                                     amount |-> amount,
                                     priority |-> getPriority(g, r),
                                     available |-> g.available[p]])]

(***************************************************************************)
(* list.sort(cmp) on priorities: a stable sort, ascending.                 *)
(***************************************************************************)
RECURSIVE Insert(_, _, _)
Insert(sorted, e, g) ==
    IF sorted = <<>> THEN <<e>>
    ELSE IF getPriority(g, e) < getPriority(g, Head(sorted))
         THEN <<e>> \o sorted
         ELSE <<Head(sorted)>> \o Insert(Tail(sorted), e, g)

\* makeGrants without the sort
NoSort(s, g) == s

RECURSIVE SortByPriority(_, _)
SortByPriority(s, g) ==
    IF s = <<>> THEN <<>>
    ELSE Insert(SortByPriority(SubSeq(s, 1, Len(s) - 1), g), s[Len(s)], g)

RECURSIVE RSum(_)
RSum(s) == IF s = <<>> THEN Float(0) ELSE RAdd(Head(s), RSum(Tail(s)))

(***************************************************************************)
(* AllocationProvider.makeGrants: the loop over the sorted snapshot reqs.  *)
(* granted maps the snapshot's entries that are already finalized to the   *)
(* amount grant() left in them; the others are read from the live graph.   *)
(***************************************************************************)
\* r.amount of a snapshot entry
SnapshotAmount(g, p, granted, r) ==
    IF r \in DOMAIN granted THEN Float(granted[r])
    ELSE g.request_subs[r][p].amount

\* total_requested for the entry req: the amounts of the snapshot entries
\* whose priority is now equal to req's
TotalRequested(g, p, reqs, granted, req) ==
    LET reqs_at_this_level ==
            SelectSeq(reqs, LAMBDA r : getPriority(g, r) = getPriority(g, req))
    IN  RSum([j \in 1..Len(reqs_at_this_level) |->
                 SnapshotAmount(g, p, granted, reqs_at_this_level[j])])

\* GrantAmount without the line "grant = min(grant, self.available)"
GrantAmountNoClamp(g, p, reqs, granted, req) ==
    LET total_requested == TotalRequested(g, p, reqs, granted, req)
        amount == SnapshotAmount(g, p, granted, req)
        ratio == IF total_requested[1] # 0
                 THEN RDiv(amount, total_requested)
                 ELSE Float(0)
    IN  Round(RMul(amount, ratio))

\* GrantAmount with max written for min
GrantAmountMax(g, p, reqs, granted, req) ==
    LET total_requested == TotalRequested(g, p, reqs, granted, req)
        amount == SnapshotAmount(g, p, granted, req)
        ratio == IF total_requested[1] # 0
                 THEN RDiv(amount, total_requested)
                 ELSE Float(0)
    IN  Max(Round(RMul(amount, ratio)), g.available[p])

\* the amount makeGrants passes to grant() for the entry req
GrantAmount(g, p, reqs, granted, req) ==
    LET total_requested == TotalRequested(g, p, reqs, granted, req)
        amount == SnapshotAmount(g, p, granted, req)
        ratio == IF total_requested[1] # 0
                 THEN RDiv(amount, total_requested)
                 ELSE Float(0)
    IN  Min(Round(RMul(amount, ratio)), g.available[p])

RECURSIVE GrantLoop(_, _, _, _, _)
GrantLoop(g, p, reqs, i, granted) ==
    IF i > Len(reqs) THEN g
    ELSE
        LET req == reqs[i]
            amount == GrantAmount(g, p, reqs, granted, req)
        IN  GrantLoop(grant(g, p, req, amount), p, reqs, i + 1,
                      With(granted, req, amount))

\* every second element of the list, from the first
RECURSIVE EverySecond(_)
EverySecond(s) ==
    IF Len(s) <= 1 THEN s ELSE <<Head(s)>> \o EverySecond(Tail(Tail(s)))

\* makeGrants looping over self.sub_requests itself, not over a copy: each
\* grant() removes the current element and the loop skips the one after it
makeGrantsNoCopy(g, p) ==
    GrantLoop(g, p, EverySecond(SortByPriority(g.provider_subs[p], g)), 1,
              <<>>)

\* makeGrants starting with "self.grants = []"
makeGrantsReset(g, p) ==
    GrantLoop([g EXCEPT !.provider_grants[p] = <<>>], p,
              SortByPriority(g.provider_subs[p], g), 1, <<>>)

makeGrants(g, p) ==
    GrantLoop(g, p, SortByPriority(g.provider_subs[p], g), 1, <<>>)

\* the graph as a record of the variables
Graph ==
    [available |-> available, provider_subs |-> provider_subs,
     provider_grants |-> provider_grants, request_amount |-> request_amount,
     request_subs |-> request_subs, request_targets |-> request_targets,
     finalized |-> finalized]

(***************************************************************************)
(* The operations.  Setup (addTarget, addProvider) comes before the first  *)
(* makeGrants call.                                                        *)
(***************************************************************************)
\* request.addTarget(target, min_ready, current); once per target
AddTarget(r, t, min_ready, current) ==
    /\ phase = "setup"
    /\ t \notin DOMAIN request_targets[r]
    /\ request_targets' = [request_targets EXCEPT
           ![r] = With(@, t, [min_ready |-> min_ready, current |-> current])]
    /\ initial' = [initial EXCEPT !.current[r] = With(@, t, current)]
    /\ UNCHANGED <<phase, available, provider_subs, provider_grants,
                   request_amount, request_subs, finalized>>

\* addProvider appending to provider.sub_requests whether or not it is there
AppendAlways(list, r) == Append(list, r)

\* "if s not in provider.sub_requests: provider.sub_requests.append(s)"
AppendIfAbsent(list, r) ==
    IF \E i \in 1..Len(list) : list[i] = r THEN list ELSE Append(list, r)

\* request.addProvider(provider, target); once per (request, provider, target)
AddProvider(r, p, t) ==
    /\ phase = "setup"
    /\ t \in DOMAIN request_targets[r]
    /\ LET s == IF p \in DOMAIN request_subs[r]
                THEN request_subs[r][p]
                ELSE [amount |-> Float(0), targets |-> <<>>]
           agt == [target |-> t, amount |-> 0]
       IN  /\ \A i \in 1..Len(s.targets) : s.targets[i].target # t
           /\ request_subs' = [request_subs EXCEPT ![r] =
                  makeRequests(
                      With(@, p, [s EXCEPT !.targets = Append(@, agt)]),
                      request_amount[r], available)]
    /\ provider_subs' = [provider_subs EXCEPT ![p] = AppendIfAbsent(@, r)]
    /\ UNCHANGED <<phase, available, provider_grants, request_amount,
                   request_targets, initial, finalized>>

\* provider.makeGrants()
MakeGrants(p) ==
    /\ \E g \in {makeGrants(Graph, p)} :
           /\ available' = g.available
           /\ provider_subs' = g.provider_subs
           /\ provider_grants' = g.provider_grants
           /\ request_amount' = g.request_amount
           /\ request_subs' = g.request_subs
           /\ request_targets' = g.request_targets
           /\ finalized' = g.finalized
    /\ phase' = "run"
    /\ UNCHANGED initial

\* the objects of the graph
Providers == DOMAIN available
Requests == DOMAIN request_amount

\* The calls a caller can make, with the targets Ts, the min_ready weights
\* MinReady and the current counts Current.
Calls(Ts, MinReady, Current) ==
    \/ \E r \in Requests, t \in Ts, min_ready \in MinReady,
          current \in Current : AddTarget(r, t, min_ready, current)
    \/ \E r \in Requests, p \in Providers, t \in Ts : AddProvider(r, p, t)
    \/ \E p \in Providers : MakeGrants(p)

(***************************************************************************)
(* Spec: two providers and two requests with any capacities and amounts,   *)
(* each request with one target of weight 1.                               *)
(***************************************************************************)
Init ==
    \E avail \in [{"p1", "p2"} -> 0..MaxNodes],
       amounts \in [{"r1", "r2"} -> 0..MaxNodes] : Constructed(avail, amounts)

Next == Calls({"t1"}, {1}, {0})

Spec == Init /\ [][Next]_vars

(***************************************************************************)
(* SpecTargets: one provider and one request of any amount, up to three    *)
(* targets with any weights and current counts.                            *)
(***************************************************************************)
InitTargets ==
    \E amount \in 0..MaxNodes :
        Constructed([p \in {"p1"} |-> MaxNodes], [r \in {"r1"} |-> amount])

NextTargets == Calls({"t1", "t2", "t3"}, 0..MaxWeight, 0..MaxCurrent)

SpecTargets == InitTargets /\ [][NextTargets]_vars

(***************************************************************************)
(* SpecSplit: a request of 10 on a provider of 10, with two targets of     *)
(* weights 1 to 3.                                                         *)
(***************************************************************************)
InitSplit ==
    Constructed([p \in {"p1"} |-> 10], [r \in {"r1"} |-> 10])

NextSplit == Calls({"t1", "t2"}, 1..3, 0..1)

SpecSplit == InitSplit /\ [][NextSplit]_vars

(***************************************************************************)
(* SpecPriority: provider p1 of 10 and provider p2 of any capacity, with   *)
(* request r1 of 6 and request r2 of 10.                                   *)
(***************************************************************************)
InitPriority ==
    \E q \in 0..MaxNodes \cup {10, 90} :
        Constructed([p \in {"p1", "p2"} |-> IF p = "p1" THEN 10 ELSE q],
                    [r \in {"r1", "r2"} |-> IF r = "r1" THEN 6 ELSE 10])

NextPriority == Calls({"t1"}, {1}, {0})

SpecPriority == InitPriority /\ [][NextPriority]_vars

(***************************************************************************)
(* SpecShared: one request of MaxNodes nodes served by two providers of    *)
(* any capacity, with two targets of any weights and current counts.       *)
(***************************************************************************)
InitShared ==
    \E avail \in [{"p1", "p2"} -> 0..MaxNodes] :
        Constructed(avail, [r \in {"r1"} |-> MaxNodes])

NextShared == Calls({"t1", "t2"}, 0..MaxWeight, 0..MaxCurrent)

SpecShared == InitShared /\ [][NextShared]_vars

(***************************************************************************)
(* Quantities the properties speak of.                                     *)
(***************************************************************************)
RECURSIVE SumAmounts(_)
SumAmounts(s) == IF s = <<>> THEN 0 ELSE Head(s).amount + SumAmounts(Tail(s))

\* the grants of provider p issued against request r
GrantsOf(p, r) == SelectSeq(provider_grants[p], LAMBDA gr : gr.request = r)

\* the sum of the amounts of all Grants issued against request r
GrantedTo(r) ==
    SumOver(Providers, [p \in Providers |-> SumAmounts(GrantsOf(p, r))])

\* the history entries of the makeGrants call on provider p
FinalizedBy(p) == SelectSeq(finalized, LAMBDA e : e.provider = p)

\* the providers that serve or have served request r
Serving(r) ==
    DOMAIN request_subs[r] \cup
        {p \in Providers : \E i \in 1..Len(finalized) :
            finalized[i].request = r /\ finalized[i].provider = p}

(***************************************************************************)
(* C1  Capacity bound: in every reachable state, for every provider, the   *)
(* sum of the amounts of the Grants in provider.grants is at most the      *)
(* provider's initial available, and provider.available is not negative.   *)
(***************************************************************************)
C1_CapacityBound ==
    \A p \in Providers :
        /\ available[p] >= 0
        /\ SumAmounts(provider_grants[p]) <= initial.available[p]

\* a provider that granted its whole capacity to two requests, the second
\* grant cut down to what was left
C1_Witness ==
    \E p \in Providers :
        /\ Len(provider_grants[p]) = 2
        /\ SumAmounts(provider_grants[p]) = initial.available[p]
        /\ \E i \in 1..Len(finalized) :
            /\ finalized[i].provider = p
            /\ finalized[i].amount = finalized[i].available
            /\ Round(finalized[i].requested) > finalized[i].amount

(***************************************************************************)
(* C2  Request conservation, upper bound: in every reachable state, for    *)
(* every request, the sum of the amounts of all Grants issued against it   *)
(* (over all providers) is at most its original amount, and Request.amount *)
(* is not negative.                                                        *)
(***************************************************************************)
C2_RequestUpperBound ==
    \A r \in Requests :
        /\ request_amount[r] >= 0
        /\ GrantedTo(r) <= initial.amount[r]

\* a request granted in full by two providers together
C2_Witness ==
    \E r \in Requests :
        /\ \A p \in Providers : GrantsOf(p, r) # <<>>
        /\ GrantedTo(r) = initial.amount[r]
        /\ request_amount[r] = 0

(***************************************************************************)
(* C3  Request conservation, completeness: once makeGrants has been        *)
(* invoked on every provider serving a request and capacity is sufficient  *)
(* (here in the strongest sense: every provider alone has capacity for all *)
(* the demand placed on it), the Grants issued against the request sum to  *)
(* its original amount and Request.amount is 0.                            *)
(***************************************************************************)
\* the original amounts of the requests provider p serves or has served
Demand(p) ==
    SumOver({r \in Requests : p \in Serving(r)}, initial.amount)

SufficientCapacity == \A p \in Providers : initial.available[p] >= Demand(p)

\* makeGrants has been invoked on every provider serving r
Resolved(r) == Serving(r) # {} /\ DOMAIN request_subs[r] = {}

C3_Completeness ==
    \A r \in Requests :
        (Resolved(r) /\ SufficientCapacity) =>
            /\ request_amount[r] = 0
            /\ GrantedTo(r) = initial.amount[r]

(***************************************************************************)
(* C4  Grant/target conservation.  As claimed: for every Grant, the sum of *)
(* the amounts of its target bindings equals the Grant's amount, whatever  *)
(* the weights.                                                            *)
(***************************************************************************)
AllGrants ==
    UNION {{provider_grants[p][i] : i \in 1..Len(provider_grants[p])} :
           p \in Providers}

\* the sum of the min_ready weights of a grant's target bindings
TotalMinReady(gr) ==
    SumTargets(gr.targets, request_targets[gr.request], "min_ready")

C4_Original ==
    \A gr \in AllGrants : SumAmounts(gr.targets) = gr.amount

(***************************************************************************)
(* C4 as amended: for every Grant whose target bindings are of distinct    *)
(* targets, if at least one binding has a positive min_ready weight the    *)
(* binding amounts sum to the Grant's amount exactly; if all the weights   *)
(* are zero every binding's amount is 0.                                   *)
(***************************************************************************)
C4_Conservation ==
    \A gr \in AllGrants :
        IF TotalMinReady(gr) > 0
        THEN SumAmounts(gr.targets) = gr.amount
        ELSE \A i \in 1..Len(gr.targets) : gr.targets[i].amount = 0

\* a grant split over three bindings, one of them of weight zero and two of
\* them given a positive amount
C4_Witness ==
    \E gr \in AllGrants :
        /\ Len(gr.targets) = 3
        /\ SumAmounts(gr.targets) = gr.amount
        /\ \E i \in 1..3 :
            request_targets[gr.request][gr.targets[i].target].min_ready = 0
        /\ Cardinality({i \in 1..3 : gr.targets[i].amount > 0}) = 2

(***************************************************************************)
(* C5  Priority ordering: within one call of makeGrants the sub-requests   *)
(* are finalized in non-decreasing order of priority, each one seeing the  *)
(* available capacity left by the ones before it.  With p1 (available 10)  *)
(* serving r1 (amount 6, only p1) and r2 (amount 10, also served by p2),   *)
(* r1 is granted 6 first and r2's grant from p1 is capped at the 4 left.   *)
(***************************************************************************)
C5_PriorityOrdering ==
    /\ \A p \in Providers :
        LET h == FinalizedBy(p)
        IN  \A i \in 1..(Len(h) - 1) :
                /\ h[i].priority <= h[i + 1].priority
                /\ h[i + 1].available = h[i].available - h[i].amount
    /\ LET h == FinalizedBy("p1")
       IN  (/\ initial.available["p1"] = 10
            /\ initial.amount["r1"] = 6
            /\ initial.amount["r2"] = 10
            /\ \E i \in 1..Len(h) : h[i].request = "r1" /\ h[i].priority = 1
            /\ \E i \in 1..Len(h) : h[i].request = "r2" /\ h[i].priority = 2)
           => /\ h[1].request = "r1" /\ h[1].amount = 6
              /\ h[2].request = "r2" /\ h[2].available = 4
              /\ h[2].amount = Min(Round(h[2].requested), 4)

\* p1 has granted 6 to r1 and then the remaining 4 to r2, which wanted more
C5_Witness ==
    LET h == FinalizedBy("p1")
    IN  /\ Len(h) = 2
        /\ h[1].request = "r1" /\ h[1].priority = 1 /\ h[1].amount = 6
        /\ h[2].request = "r2" /\ h[2].priority = 2 /\ h[2].amount = 4
        /\ Round(h[2].requested) > 4

(***************************************************************************)
(* C6  Degenerate zero capacity: a makeGrants call on a provider whose     *)
(* available is 0 finalizes every one of its pending sub-requests with     *)
(* amount 0, appends nothing to provider.grants, leaves available at 0 and *)
(* every Request.amount unchanged, and leaves each affected request        *)
(* pending on its other providers.                                         *)
(***************************************************************************)
\* the requests with a sub-request pending on provider p
Pending(p) == {provider_subs[p][i] : i \in 1..Len(provider_subs[p])}

C6_ZeroCapacityStep ==
    \A p \in Providers :
        (available[p] = 0 /\ MakeGrants(p)) =>
            /\ provider_subs'[p] = <<>>
            /\ Len(finalized') = Len(finalized) + Len(provider_subs[p])
            /\ \A i \in (Len(finalized) + 1)..Len(finalized') :
                /\ finalized'[i].provider = p
                /\ finalized'[i].amount = 0
            /\ {finalized'[i].request :
                    i \in (Len(finalized) + 1)..Len(finalized')} = Pending(p)
            /\ provider_grants' = provider_grants
            /\ available' = available
            /\ request_amount' = request_amount
            /\ \A r \in Requests :
                DOMAIN request_subs'[r] = DOMAIN request_subs[r] \ {p}
            /\ \A q \in Providers \ {p} : provider_subs'[q] = provider_subs[q]

C6_ZeroCapacity == [][C6_ZeroCapacityStep]_vars

\* a provider without capacity has finalized, with amount 0, a sub-request
\* of a request that is still pending, in full, on its other provider
C6_Witness ==
    \E i \in 1..Len(finalized) :
        LET e == finalized[i]
        IN  /\ e.available = 0 /\ e.amount = 0 /\ e.priority = 2
            /\ initial.available[e.provider] = 0
            /\ provider_grants[e.provider] = <<>>
            /\ DOMAIN request_subs[e.request] # {}
            /\ request_amount[e.request] = initial.amount[e.request]
            /\ request_amount[e.request] > 0

(***************************************************************************)
(* C7  Idempotent no-op: a makeGrants call on a provider with no pending   *)
(* sub-requests (a second call on a resolved provider included) changes no *)
(* provider's available or grants, no request's amount or sub-requests,    *)
(* and no target binding.                                                  *)
(***************************************************************************)
C7_NoOpStep ==
    \A p \in Providers :
        (provider_subs[p] = <<>> /\ MakeGrants(p)) =>
            UNCHANGED <<available, provider_subs, provider_grants,
                        request_amount, request_subs, request_targets,
                        finalized>>

C7_NoOp == [][C7_NoOpStep]_vars

\* makeGrants has been called, on providers with nothing pending only,
\* while a sub-request is pending on another provider
C7_Witness ==
    /\ phase = "run"
    /\ finalized = <<>>
    /\ \E p \in Providers : provider_subs[p] # <<>>

(***************************************************************************)
(* C8  Weighted target split: a Grant of amount 10 with two target         *)
(* bindings, in that order of weights 3 and 1 and current counts 0 and 0,  *)
(* assigns 8 to the first and 2 to the second, and the two current counts  *)
(* are then 8 and 2.                                                       *)
(***************************************************************************)
\* a grant of 10 whose two bindings have the weights 3 and 1 and started
\* from the current counts 0 and 0
IsSplitCase(gr) ==
    /\ gr.amount = 10
    /\ Len(gr.targets) = 2
    /\ LET rts == request_targets[gr.request]
           t1 == gr.targets[1].target
           t2 == gr.targets[2].target
       IN  /\ rts[t1].min_ready = 3 /\ rts[t2].min_ready = 1
           /\ initial.current[gr.request][t1] = 0
           /\ initial.current[gr.request][t2] = 0

C8_WeightedSplit ==
    \A gr \in AllGrants :
        IsSplitCase(gr) =>
            /\ gr.targets[1].amount = 8
            /\ gr.targets[2].amount = 2
            /\ request_targets[gr.request][gr.targets[1].target].current = 8
            /\ request_targets[gr.request][gr.targets[2].target].current = 2

C8_Witness == \E gr \in AllGrants : IsSplitCase(gr)

(***************************************************************************)
(* C9  Sub-request amounts track current capacity: in every state between  *)
(* operations, each live sub-request's amount is Request.amount times its  *)
(* provider's available capacity over the sum of the available capacity of *)
(* the providers now serving the request (0 if that sum is 0).             *)
(***************************************************************************)
\* the sum of the available capacity of the providers now serving r
TotalAvailable(r) == SumOver(DOMAIN request_subs[r], available)

LiveSum(r) ==
    LET ps == DOMAIN request_subs[r]
        RECURSIVE Sum(_)
        Sum(S) == IF S = {} THEN Float(0)
                  ELSE LET p == CHOOSE x \in S : TRUE
                       IN  RAdd(request_subs[r][p].amount, Sum(S \ {p}))
    IN  Sum(ps)

C10_Original ==
    \A r \in Requests :
        DOMAIN request_subs[r] # {} => LiveSum(r) = Float(request_amount[r])

(***************************************************************************)
(* C10 as amended: for every request with a live sub-request, the amounts  *)
(* of its live sub-requests sum to Request.amount if the providers now     *)
(* serving it have available capacity between them, and are all 0 if they  *)
(* have none.                                                              *)
(***************************************************************************)
C10_SubRequestSum ==
    \A r \in Requests :
        DOMAIN request_subs[r] # {} =>
            IF TotalAvailable(r) > 0
            THEN LiveSum(r) = Float(request_amount[r])
            ELSE \A p \in DOMAIN request_subs[r] :
                    request_subs[r][p].amount = Float(0)

\* a request split in thirds over two providers
C10_Witness ==
    \E r \in Requests :
        /\ Cardinality(DOMAIN request_subs[r]) = 2
        /\ \A p \in DOMAIN request_subs[r] : request_subs[r][p].amount[2] = 3
        /\ LiveSum(r) = Float(request_amount[r])

(***************************************************************************)
(* C11  Order across providers matters: makeGrants calls on two different  *)
(* providers do not commute.  In the graph where two providers of 3 nodes  *)
(* each serve one request of 3 nodes, whichever provider grants first      *)
(* issues 2 nodes and the other issues 1, so that P-then-Q and Q-then-P    *)
(* end with different per-provider grant amounts.                          *)
(***************************************************************************)
\* two providers of 3 nodes each serve request r of 3 nodes and nothing else
IsOrderExample(r) ==
    /\ \A p \in Providers : initial.available[p] = 3
    /\ initial.amount[r] = 3
    /\ Serving(r) = Providers
    /\ \A o \in Requests \ {r} : Serving(o) = {}

\* provider p finalized request r before provider q did
FinalizedBefore(p, q, r) ==
    \E i, j \in 1..Len(finalized) :
        /\ i < j
        /\ finalized[i].provider = p /\ finalized[i].request = r
        /\ finalized[j].provider = q /\ finalized[j].request = r

C11_OrderMatters ==
    \A r \in Requests : \A p, q \in Providers :
        (IsOrderExample(r) /\ p # q) =>
            /\ (phase = "setup") =>
                   \E pq \in {makeGrants(makeGrants(Graph, p), q)} :
                   \E qp \in {makeGrants(makeGrants(Graph, q), p)} :
                       /\ SumAmounts(pq.provider_grants[p]) = 2
                       /\ SumAmounts(pq.provider_grants[q]) = 1
                       /\ SumAmounts(qp.provider_grants[p]) = 1
                       /\ SumAmounts(qp.provider_grants[q]) = 2
            /\ FinalizedBefore(p, q, r) =>
                   /\ SumAmounts(provider_grants[p]) = 2
                   /\ SumAmounts(provider_grants[q]) = 1

\* the example after makeGrants on p2 and then on p1: p2 granted 2, p1 1
C11_Witness ==
    \E r \in Requests :
        /\ IsOrderExample(r)
        /\ FinalizedBefore("p2", "p1", r)
        /\ SumAmounts(provider_grants["p2"]) = 2
        /\ SumAmounts(provider_grants["p1"]) = 1

(***************************************************************************)
(* C12  At most one live SubRequest per (Request, Provider): every         *)
(* addProvider call leaves the request with exactly one SubRequest for     *)
(* each provider added so far, listed exactly once in that provider's      *)
(* sub_requests; called for a pair that already has a live SubRequest, it  *)
(* appends one GrantTargetBinding to that SubRequest and creates no second *)
(* one.                                                                    *)
(***************************************************************************)
\* how many times e occurs in the list
Count(list, e) == Cardinality({i \in 1..Len(list) : list[i] = e})

\* provider.sub_requests lists the request's sub-request once if the request
\* holds one for the provider, and not at all otherwise
ListedOnce ==
    \A r \in Requests : \A p \in Providers :
        Count(provider_subs[p], r) =
            IF p \in DOMAIN request_subs[r] THEN 1 ELSE 0

C12_OneSubRequestStep ==
    /\ ListedOnce'
    /\ \A r \in Requests : \A p \in Providers :
       \A t \in DOMAIN request_targets[r] :
           AddProvider(r, p, t) =>
               /\ DOMAIN request_subs'[r] = DOMAIN request_subs[r] \cup {p}
               /\ \A o \in Requests \ {r} : request_subs'[o] = request_subs[o]
               /\ \A q \in Providers \ {p} : provider_subs'[q] = provider_subs[q]
               /\ IF p \in DOMAIN request_subs[r]
                  THEN /\ provider_subs'[p] = provider_subs[p]
                       /\ request_subs'[r][p].targets =
                              Append(request_subs[r][p].targets,
                                     [target |-> t, amount |-> 0])
                  ELSE /\ provider_subs'[p] = Append(provider_subs[p], r)
                       /\ request_subs'[r][p].targets =
                              <<[target |-> t, amount |-> 0]>>

C12_OneSubRequest == [][C12_OneSubRequestStep]_vars

\* a request with a sub-request on each provider, one of them bound to two
\* targets by a second addProvider call for its pair
C12_Witness ==
    /\ phase = "setup"
    /\ \E r \in Requests :
        /\ DOMAIN request_subs[r] = Providers
        /\ \A p \in Providers : provider_subs[p] = <<r>>
        /\ \E p \in Providers : Len(request_subs[r][p].targets) = 2

(***************************************************************************)
(* C13  Finalization is one-way and at most once: a sub-request that has   *)
(* been granted (with any amount, 0 included) is in neither                *)
(* provider.sub_requests nor request.sub_requests in any later state, and  *)
(* is never passed to grant() a second time.                               *)
(***************************************************************************)
C13_FinalizedOnce ==
    \A i \in 1..Len(finalized) :
        /\ Count(provider_subs[finalized[i].provider], finalized[i].request) = 0
        /\ finalized[i].provider \notin DOMAIN request_subs[finalized[i].request]
        /\ \A j \in 1..Len(finalized) :
               (/\ finalized[j].provider = finalized[i].provider
                /\ finalized[j].request = finalized[i].request) => j = i

\* makeGrants has run on both providers, one after the other, and the earlier
\* call finalized sub-requests with amount 0 and with a positive amount
C13_Witness ==
    /\ \A p \in Providers : Len(FinalizedBy(p)) = 2
    /\ \E i, j \in 1..2 :
        /\ finalized[i].amount = 0
        /\ finalized[j].amount > 0

(***************************************************************************)
(* C14  makeGrants resolves everything pending: every makeGrants call      *)
(* finalizes each sub-request that was pending on the provider when it     *)
(* started exactly once and leaves provider.sub_requests empty; once no    *)
(* provider has a pending sub-request, no request has a live SubRequest.   *)
(***************************************************************************)
\* the history entries from position n + 1 on
FinalizedAfter(n) == SubSeq(finalized', n + 1, Len(finalized'))

C14_ResolvesStep ==
    /\ \A p \in Providers :
           MakeGrants(p) =>
               /\ provider_subs'[p] = <<>>
               /\ SubSeq(finalized', 1, Len(finalized)) = finalized
               /\ Len(FinalizedAfter(Len(finalized))) = Len(provider_subs[p])
               /\ \A r \in Requests :
                      Count(provider_subs[p], r) =
                          Cardinality(
                              {i \in Len(finalized) + 1..Len(finalized') :
                                  /\ finalized'[i].provider = p
                                  /\ finalized'[i].request = r})
    /\ (\A p \in Providers : provider_subs'[p] = <<>>) =>
           \A r \in Requests : DOMAIN request_subs'[r] = {}

C14_Resolves == [][C14_ResolvesStep]_vars

\* makeGrants has run on both providers, each with two sub-requests pending,
\* and nothing is live any more
C14_Witness ==
    /\ \A p \in Providers : Len(FinalizedBy(p)) = 2
    /\ \A p \in Providers : provider_subs[p] = <<>>
    /\ \A r \in Requests : DOMAIN request_subs[r] = {}

(***************************************************************************)
(* C15  Target allocation bounds: every target binding of a Grant is       *)
(* allocated an integer between 0 and the part of the Grant's amount that  *)
(* the bindings before it left unassigned; so the amount left is never     *)
(* negative and the allocations never sum to more than the Grant's amount, *)
(* whatever the non-negative weights and current counts.                   *)
(***************************************************************************)
\* what is left of the grant's amount when its i-th binding is allocated
Remaining(gr, i) == gr.amount - SumAmounts(SubSeq(gr.targets, 1, i - 1))

C15_AllocationBounds ==
    \A gr \in AllGrants :
        /\ \A i \in 1..Len(gr.targets) :
               /\ gr.targets[i].amount \in Nat
               /\ gr.targets[i].amount <= Remaining(gr, i)
        /\ Remaining(gr, Len(gr.targets) + 1) >= 0
        /\ SumAmounts(gr.targets) <= gr.amount

\* a grant over three bindings: one of positive weight is allocated nothing,
\* one takes all that was left, and the grant is not used up
C15_Witness ==
    \E gr \in AllGrants :
        /\ Len(gr.targets) = 3
        /\ \E i \in 1..3 :
            /\ gr.targets[i].amount = 0
            /\ request_targets[gr.request][gr.targets[i].target].min_ready > 0
        /\ \E j \in 1..2 :
            /\ gr.targets[j].amount > 0
            /\ gr.targets[j].amount = Remaining(gr, j)

(***************************************************************************)
(* C16  Exact accounting: in every reachable state provider.available is   *)
(* the provider's initial available minus the sum of the amounts of the    *)
(* Grants in provider.grants, Request.amount is the request's original     *)
(* amount minus the sum of the amounts of all Grants issued against it,    *)
(* and every Grant in provider.grants has an amount of at least 1.         *)
(***************************************************************************)
C16_ExactAccounting ==
    /\ \A p \in Providers :
           /\ available[p] =
                  initial.available[p] - SumAmounts(provider_grants[p])
           /\ \A i \in 1..Len(provider_grants[p]) :
                  provider_grants[p][i].amount >= 1
    /\ \A r \in Requests :
           request_amount[r] = initial.amount[r] - GrantedTo(r)

\* both providers have granted, a request holds grants of both, and a
\* sub-request was finalized with amount 0 and left no Grant
C16_Witness ==
    /\ \A p \in Providers : provider_grants[p] # <<>>
    /\ \E r \in Requests : \A p \in Providers : GrantsOf(p, r) # <<>>
    /\ \E i \in 1..Len(finalized) : finalized[i].amount = 0

(***************************************************************************)
(* C17  Tier totals count only unfinalized sub-requests: when makeGrants   *)
(* processes a sub-request, the total it divides by is the sum of the      *)
(* amounts of the snapshot entries that are not yet finalized and have the *)
(* same priority; no entry finalized earlier in the pass is counted in a   *)
(* later tier total.                                                       *)
(***************************************************************************)
\* the amounts of the entries reqs[i..] that have the priority of reqs[i]
PendingTierTotal(g, p, reqs, i) ==
    LET pending == SelectSeq(SubSeq(reqs, i, Len(reqs)),
                       LAMBDA r : getPriority(g, r) = getPriority(g, reqs[i]))
    IN  RSum([j \in 1..Len(pending) |-> g.request_subs[pending[j]][p].amount])

\* the loop of makeGrants from entry i on, comparing each tier total
RECURSIVE TierTotalsPending(_, _, _, _, _)
TierTotalsPending(g, p, reqs, i, granted) ==
    IF i > Len(reqs) THEN TRUE
    ELSE /\ TotalRequested(g, p, reqs, granted, reqs[i]) =
                PendingTierTotal(g, p, reqs, i)
         /\ \A j \in 1..(i - 1) :
                getPriority(g, reqs[j]) # getPriority(g, reqs[i])
         /\ TierTotalsPending(
                grant(g, p, reqs[i], GrantAmount(g, p, reqs, granted, reqs[i])),
                p, reqs, i + 1,
                With(granted, reqs[i],
                     GrantAmount(g, p, reqs, granted, reqs[i])))

C17_TierTotalsStep ==
    \A p \in Providers :
        MakeGrants(p) =>
            TierTotalsPending(Graph, p,
                SortByPriority(provider_subs[p], Graph), 1, <<>>)

C17_TierTotals == [][C17_TierTotalsStep]_vars

\* one makeGrants call finalized two sub-requests of the same priority, the
\* first of them with a positive grant
C17_Witness ==
    \E i \in 1..Len(finalized) :
        /\ i < Len(finalized)
        /\ finalized[i].provider = finalized[i + 1].provider
        /\ finalized[i].priority = finalized[i + 1].priority
        /\ finalized[i].amount > 0
        /\ finalized[i + 1].amount > 0

(***************************************************************************)
(* C18  Target current counts accumulate: in every reachable state each    *)
(* RequestTargetBinding's current is the value given to addTarget plus the *)
(* sum of the amounts of all GrantTargetBindings, over all providers, that *)
(* refer to it; and current never decreases from one state to the next.    *)
(***************************************************************************)
\* the sum of the amounts of the bindings in the list that refer to target t
RECURSIVE SumFor(_, _)
SumFor(targets, t) ==
    IF targets = <<>> THEN 0
    ELSE (IF Head(targets).target = t THEN Head(targets).amount ELSE 0)
             + SumFor(Tail(targets), t)

\* the same, over the grants in the list that are issued against request r
RECURSIVE SumGrantsFor(_, _, _)
SumGrantsFor(grants, r, t) ==
    IF grants = <<>> THEN 0
    ELSE (IF Head(grants).request = r THEN SumFor(Head(grants).targets, t)
          ELSE 0) + SumGrantsFor(Tail(grants), r, t)

\* the amounts of all GrantTargetBindings that refer to target t of request
\* r: those of the Grants of every provider, and those of the live
\* sub-requests
AllocatedTo(r, t) ==
    SumOver(Providers,
        [p \in Providers |->
            SumGrantsFor(provider_grants[p], r, t)
            + IF p \in DOMAIN request_subs[r]
              THEN SumFor(request_subs[r][p].targets, t) ELSE 0])

CurrentIsSum ==
    \A r \in Requests : \A t \in DOMAIN request_targets[r] :
        request_targets[r][t].current =
            initial.current[r][t] + AllocatedTo(r, t)

C18_CurrentStep ==
    /\ CurrentIsSum'
    /\ \A r \in Requests : \A t \in DOMAIN request_targets[r] :
           /\ t \in DOMAIN request_targets'[r]
           /\ request_targets'[r][t].current >= request_targets[r][t].current

C18_CurrentAccumulates == [][C18_CurrentStep]_vars

\* a target that started with a positive current count and was allocated
\* nodes by the Grants of both providers
C18_Witness ==
    \E r \in Requests : \E t \in DOMAIN request_targets[r] :
        /\ initial.current[r][t] > 0
        /\ \A p \in Providers : SumGrantsFor(provider_grants[p], r, t) > 0
        /\ request_targets[r][t].current =
               initial.current[r][t] + AllocatedTo(r, t)

(***************************************************************************)
(* C19  The live collections agree: a sub-request is in its provider's     *)
(* sub_requests exactly when its request's sub_requests holds it for that  *)
(* provider; hence the priority of a live sub-request is the number of     *)
(* providers on whose pending list its request appears.                    *)
(***************************************************************************)
C19_CollectionsAgree ==
    \A r \in Requests :
        /\ \A p \in Providers :
               r \in Pending(p) <=> p \in DOMAIN request_subs[r]
        /\ getPriority(Graph, r) =
               Cardinality({p \in Providers : r \in Pending(p)})

\* after makeGrants on one provider: a request that both providers served is
\* live on the other provider only, with priority 1
C19_Witness ==
    \E r \in Requests : \E p \in Providers :
        /\ Serving(r) = Providers
        /\ FinalizedBy(p) # <<>>
        /\ DOMAIN request_subs[r] = Providers \ {p}
        /\ \A q \in Providers : r \in Pending(q) <=> q # p
        /\ getPriority(Graph, r) = 1

(***************************************************************************)
(* C20  Frame of makeGrants: a makeGrants call on provider P leaves, for   *)
(* every other provider Q, Q.available, Q.grants and Q.sub_requests as     *)
(* they were, and leaves the amount, the sub-requests and the target       *)
(* current counts of every request with no sub-request pending on P as     *)
(* they were.  Of the other providers' state it may change only the        *)
(* amounts of their pending sub-requests of requests that P also serves.   *)
(***************************************************************************)
C20_FrameStep ==
    \A p \in Providers :
        MakeGrants(p) =>
            /\ \A q \in Providers \ {p} :
                   /\ available'[q] = available[q]
                   /\ provider_grants'[q] = provider_grants[q]
                   /\ provider_subs'[q] = provider_subs[q]
            /\ \A r \in Requests \ Pending(p) :
                   /\ request_amount'[r] = request_amount[r]
                   /\ request_subs'[r] = request_subs[r]
                   /\ request_targets'[r] = request_targets[r]
            /\ \A r \in Pending(p) :
                   /\ DOMAIN request_subs'[r] = DOMAIN request_subs[r] \ {p}
                   /\ \A q \in DOMAIN request_subs'[r] :
                          request_subs'[r][q].targets =
                              request_subs[r][q].targets

C20_Frame == [][C20_FrameStep]_vars

\* makeGrants has run on one provider only and granted there; the other
\* provider, untouched, still has a request of its own pending and a shared
\* request whose amount the call has changed
C20_Witness ==
    \E p, q \in Providers : \E r, o \in Requests :
        /\ p # q
        /\ provider_grants[p] # <<>>
        /\ FinalizedBy(q) = <<>>
        /\ available[q] = initial.available[q]
        /\ Serving(o) = {q}
        /\ Serving(r) = {p, q}
        /\ Pending(q) = {r, o}
        /\ GrantsOf(p, r) # <<>>
        /\ request_subs[r][q].amount = Float(request_amount[r])

=============================================================================
